---------------------------- MODULE Spec2Model ----------------------------
(*************************************************************************)
(* Ticket algorithm of proj2.c: a coordinator (main) parses two          *)
(* arguments, creates thread_count workers (just_do_it) and joins them;  *)
(* every worker repeatedly takes a ticket (getticket), waits for its     *)
(* turn (await), prints in the critical section and passes the turn on   *)
(* (advance).                                                            *)
(*************************************************************************)
EXTENDS Integers, Sequences, FiniteSets, TLC

(*************************************************************************)
(* Bounds of the model.                                                  *)
(*************************************************************************)
\* largest THREAD_COUNT given on the command line
MaxThreads == 3
\* largest THREAD_COUNT and in-range LOOP_COUNT given on a platform where
\* the never-initialised ticket_mutex does not work
MaxRaceThreads == 2
MaxRaceLoop == 2
\* largest in-range LOOP_COUNT given on the command line
MaxLoop == 3
\* width in bits of `int' / `unsigned' (32 in the build, scaled down);
\* `unsigned long' is twice as wide
IntBits == 4
UINT_MOD  == 2 ^ IntBits
INT_MAX   == 2 ^ (IntBits - 1) - 1
ULONG_MAX == 2 ^ (2 * IntBits) - 1

Workers == 1 .. MaxThreads

(*************************************************************************)
(* C conversions.                                                        *)
(*************************************************************************)
\* conversion of a value to `unsigned' (get_num stores the unsigned long
\* returned by strtoul into an unsigned)
ToUnsigned(v) == v % UINT_MOD

\* the cast (int) of an unsigned value, two's complement
ToInt(u) == IF u > INT_MAX THEN u - UINT_MOD ELSE u

(*************************************************************************)
(* Strings are sequences of one-character strings.                       *)
(*************************************************************************)
DigitChars == <<"0", "1", "2", "3", "4", "5", "6", "7", "8", "9">>

IsDigit(c) == \E d \in 1 .. 10 : DigitChars[d] = c

DigitVal(c) == (CHOOSE d \in 1 .. 10 : DigitChars[d] = c) - 1

IsSpace(c) == c = " "

\* index of the first character at or after position p that is no blank
RECURSIVE SkipSpace(_, _)
SkipSpace(str, p) ==
    IF p <= Len(str) /\ IsSpace(str[p]) THEN SkipSpace(str, p + 1) ELSE p

\* the digits from position p on: <<value, position after the last digit>>;
\* the value sticks at ULONG_MAX once it overflows
RECURSIVE ScanDigits(_, _, _)
ScanDigits(str, p, acc) ==
    IF p <= Len(str) /\ IsDigit(str[p])
    THEN ScanDigits(str, p + 1,
                    IF acc * 10 + DigitVal(str[p]) > ULONG_MAX
                    THEN ULONG_MAX
                    ELSE acc * 10 + DigitVal(str[p]))
    ELSE <<acc, p>>

\* strtoul(str, &endptr, 10): blanks, an optional sign, decimal digits.
\* endptr (a position, 1 = str) is str itself when there are no digits.
strtoul(str) ==
    LET s    == SkipSpace(str, 1)
        neg  == s <= Len(str) /\ str[s] = "-"
        sgn  == s <= Len(str) /\ str[s] \in {"-", "+"}
        d    == IF sgn THEN s + 1 ELSE s
        scan == ScanDigits(str, d, 0)
    IN  IF scan[2] = d
        THEN [val |-> 0, endptr |-> 1]
        ELSE [val    |-> IF neg /\ scan[1] # ULONG_MAX
                         THEN (ULONG_MAX + 1 - scan[1]) % (ULONG_MAX + 1)
                         ELSE scan[1],
              endptr |-> scan[2]]

\* get_num without the comparison of endptr with the end of the string
get_num_unchecked(str) ==
    [num |-> ToUnsigned(strtoul(str).val), ok |-> TRUE]

\* get_num(&num, str): the converted value and whether the whole string
\* was converted
get_num(str) ==
    [num |-> ToUnsigned(strtoul(str).val),
     ok  |-> strtoul(str).endptr = 1 + Len(str)]

\* decimal numeral of n >= 0
RECURSIVE Numeral(_)
Numeral(n) ==
    IF n < 10 THEN <<DigitChars[n + 1]>>
    ELSE Append(Numeral(n \div 10), DigitChars[(n % 10) + 1])

(*************************************************************************)
(* Command lines the coordinator is started with (argv[1..]).            *)
(*************************************************************************)
ThreadArgs(most) ==
    {Numeral(n) : n \in 0 .. most} \cup {<<>>, <<"a">>, <<"1", "a">>}

LoopArgs(most) ==
    {Numeral(n) : n \in 0 .. most}
        \cup {Numeral(INT_MAX + 1), <<"-", "1">>, <<"x">>, <<"2", "x">>, <<" ", "1">>}

CommandLines(mostThreads, mostLoop) ==
    {<<a, b>> : a \in ThreadArgs(mostThreads), b \in LoopArgs(mostLoop)}
        \cup {<<>>, <<"1">>, <<"1", "1", "1">>}

VARIABLES
    gate,            \* the notification strategy of the gate: the code's is "relay"
    argv,            \* the arguments after the program name
    zero_mutex_ok,   \* does a zero-filled pthread_mutex_t work as a mutex
    main_pc,         \* position of main
    thread_count,    \* main's unsigned thread_count
    loop_count,      \* main's unsigned loop_count
    i,               \* index of main's create / join loops
    params,          \* params[w]: thread_param_t of worker w
    section_mutex,   \* [st, owner]
    ticket_mutex,    \* [st, owner]
    section_cond,    \* [st, waiters]
    actual_ticket,
    next_ticket,
    pc,              \* position of each worker
    ticket,          \* just_do_it's local ticket
    res,             \* getticket's local res
    reg,             \* value loaded by next_ticket++
    out,             \* lines written to standard output: <<ticket, id>>
    err,             \* messages written to standard error
    issued,          \* history: values read into res, in order
    wakes            \* history: wake-ups of a waiter since actual_ticket changed

vars == <<gate, argv, zero_mutex_ok, main_pc, thread_count, loop_count, i, params,
          section_mutex, ticket_mutex, section_cond, actual_ticket,
          next_ticket, pc, ticket, res, reg, out, err, issued, wakes>>

mainVars   == <<main_pc, thread_count, loop_count, i, err>>
ticketVars == <<ticket_mutex, next_ticket, res, reg, issued>>
gateVars   == <<section_mutex, section_cond, actual_ticket, wakes>>

\* the state of the program when main starts
InitProgram ==
    /\ zero_mutex_ok \in BOOLEAN
    /\ argv \in IF zero_mutex_ok
                 THEN CommandLines(MaxThreads, MaxLoop)
                 ELSE CommandLines(MaxRaceThreads, MaxRaceLoop)
    /\ main_pc = "check_argc"
    /\ thread_count = 0
    /\ loop_count = 0
    /\ i = 0
    /\ params = [w \in Workers |-> [id |-> 0, loop_count |-> 0]]
    /\ section_mutex = [st |-> "uninit", owner |-> 0]
    /\ ticket_mutex = [st |-> "uninit", owner |-> 0]
    /\ section_cond = [st |-> "uninit", waiters |-> {}]
    /\ actual_ticket = 0
    /\ next_ticket = 0
    /\ pc = [w \in Workers |-> "idle"]
    /\ ticket = [w \in Workers |-> 0]
    /\ res = [w \in Workers |-> 0]
    /\ reg = [w \in Workers |-> 0]
    /\ out = <<>>
    /\ err = <<>>
    /\ issued = <<>>
    /\ wakes = [w \in Workers |-> 0]

\* the gate of src/proj2.c: signal in advance, signal before wait in await
Init == gate = "relay" /\ InitProgram

(*************************************************************************)
(* POSIX objects.  A mutex is [st, owner]: st is "uninit" until          *)
(* pthread_mutex_init, "destroyed" after pthread_mutex_destroy; owner is *)
(* the worker holding it, 0 when free.  An object of static storage that *)
(* was never initialised is zero-filled: whether that is a working mutex *)
(* is up to the platform (zero_mutex_ok); where it is not, the calls     *)
(* fail with EINVAL, which the code does not look at.                    *)
(*************************************************************************)
MutexWorks(m) == m.st = "init" \/ (m.st = "uninit" /\ zero_mutex_ok)

\* pthread_mutex_lock can return: the mutex is free, or the call fails
CanLock(m) == MutexWorks(m) => m.owner = 0

\* a lock that returns without taking the mutex
lock_not_taken(m, w) == m

\* the mutex after pthread_mutex_lock returned in worker w
pthread_mutex_lock(m, w) ==
    IF MutexWorks(m) THEN [m EXCEPT !.owner = w] ELSE m

\* an unlock that leaves the mutex with its owner
unlock_not_released(m, w) == m

\* the mutex after pthread_mutex_unlock in worker w
pthread_mutex_unlock(m, w) ==
    IF m.owner = w THEN [m EXCEPT !.owner = 0] ELSE m

\* print_help: the usage text goes to standard error
print_help(e) == Append(e, "usage")

(*************************************************************************)
(* main                                                                  *)
(*************************************************************************)
\* lines 229-232: argc counts the program name too
CheckArgc ==
    /\ main_pc = "check_argc"
    /\ IF Len(argv) + 1 # 3
       THEN /\ err' = print_help(Append(err, "Invalid argument count"))
            /\ main_pc' = "exit_failure"
       ELSE /\ err' = err
            /\ main_pc' = "parse_thread_count"
    /\ UNCHANGED <<gate, argv, zero_mutex_ok, thread_count, loop_count, i, params,
                   pc, ticket, out>>
    /\ UNCHANGED <<ticketVars, gateVars>>

\* lines 234-237
ParseThreadCount ==
    /\ main_pc = "parse_thread_count"
    /\ thread_count' = get_num(argv[1]).num
    /\ IF ~get_num(argv[1]).ok \/ thread_count' <= 0
       THEN /\ err' = print_help(err)
            /\ main_pc' = "exit_failure"
       ELSE /\ err' = err
            /\ main_pc' = "parse_loop_count"
    /\ UNCHANGED <<gate, argv, zero_mutex_ok, loop_count, i, params, pc, ticket, out>>
    /\ UNCHANGED <<ticketVars, gateVars>>

\* lines 239-242
ParseLoopCount ==
    /\ main_pc = "parse_loop_count"
    /\ loop_count' = get_num(argv[2]).num
    /\ IF ~get_num(argv[2]).ok \/ loop_count' <= 0
       THEN /\ err' = print_help(err)
            /\ main_pc' = "exit_failure"
       ELSE /\ err' = err
            /\ main_pc' = "alloc"
    /\ UNCHANGED <<gate, argv, zero_mutex_ok, thread_count, i, params, pc, ticket, out>>
    /\ UNCHANGED <<ticketVars, gateVars>>

\* lines 244-249: either malloc may return NULL
Alloc ==
    /\ main_pc = "alloc"
    /\ \E threads_ok \in BOOLEAN, params_ok \in BOOLEAN :
          IF ~threads_ok \/ ~params_ok
          THEN /\ err' = Append(err, "Error: out of memory!")
               /\ main_pc' = "exit_failure"
          ELSE /\ err' = err
               /\ main_pc' = "init_mutex"
    /\ UNCHANGED <<gate, argv, zero_mutex_ok, thread_count, loop_count, i, params,
                   pc, ticket, out>>
    /\ UNCHANGED <<ticketVars, gateVars>>

\* line 251
InitMutex ==
    /\ main_pc = "init_mutex"
    /\ section_mutex' = [st |-> "init", owner |-> 0]
    /\ main_pc' = "init_cond"
    /\ UNCHANGED <<gate, argv, zero_mutex_ok, thread_count, loop_count, i, err, params,
                   pc, ticket, out, section_cond, actual_ticket, wakes>>
    /\ UNCHANGED ticketVars

\* line 252
InitCond ==
    /\ main_pc = "init_cond"
    /\ section_cond' = [st |-> "init", waiters |-> {}]
    /\ main_pc' = "create"
    /\ UNCHANGED <<gate, argv, zero_mutex_ok, thread_count, loop_count, i, err, params,
                   pc, ticket, out, section_mutex, actual_ticket, wakes>>
    /\ UNCHANGED ticketVars

\* an id that repeats the loop index, so that the first worker is 0
ThreadIdFromZero(k) == k

\* line 263: params[i].id = i + 1
ThreadId(k) == k + 1

\* lines 262-266: worker i + 1 gets its parameters and starts in just_do_it
Create ==
    /\ main_pc = "create"
    /\ IF i < thread_count
       THEN /\ params' = [params EXCEPT ![i + 1] =
                             [id |-> ThreadId(i), loop_count |-> ToInt(loop_count)]]
            /\ pc' = [pc EXCEPT ![i + 1] = "gt_lock"]
            /\ i' = i + 1
            /\ main_pc' = main_pc
       ELSE /\ i' = 0
            /\ main_pc' = "join"
            /\ UNCHANGED <<params, pc>>
    /\ UNCHANGED <<gate, argv, zero_mutex_ok, thread_count, loop_count, err, ticket, out>>
    /\ UNCHANGED <<ticketVars, gateVars>>

\* lines 271-272: pthread_join returns once the worker has returned
Join ==
    /\ main_pc = "join"
    /\ IF i < thread_count
       THEN /\ pc[i + 1] = "done"
            /\ i' = i + 1
            /\ main_pc' = main_pc
       ELSE /\ i' = i
            /\ main_pc' = "destroy_mutex"
    /\ UNCHANGED <<gate, argv, zero_mutex_ok, thread_count, loop_count, err, params,
                   pc, ticket, out>>
    /\ UNCHANGED <<ticketVars, gateVars>>

\* line 280
DestroyMutex ==
    /\ main_pc = "destroy_mutex"
    /\ section_mutex' = [section_mutex EXCEPT !.st = "destroyed"]
    /\ main_pc' = "destroy_cond"
    /\ UNCHANGED <<gate, argv, zero_mutex_ok, thread_count, loop_count, i, err, params,
                   pc, ticket, out, section_cond, actual_ticket, wakes>>
    /\ UNCHANGED ticketVars

\* lines 281-283
DestroyCond ==
    /\ main_pc = "destroy_cond"
    /\ section_cond' = [section_cond EXCEPT !.st = "destroyed"]
    /\ main_pc' = "exit_success"
    /\ UNCHANGED <<gate, argv, zero_mutex_ok, thread_count, loop_count, i, err, params,
                   pc, ticket, out, section_mutex, actual_ticket, wakes>>
    /\ UNCHANGED ticketVars

main ==
    \/ CheckArgc
    \/ ParseThreadCount
    \/ ParseLoopCount
    \/ Alloc
    \/ InitMutex
    \/ InitCond
    \/ Create
    \/ Join
    \/ DestroyMutex
    \/ DestroyCond

(*************************************************************************)
(* getticket                                                             *)
(*************************************************************************)
\* lines 158-159: lock, then res = next_ticket
GetTicketLock(w) ==
    /\ pc[w] = "gt_lock"
    /\ CanLock(ticket_mutex)
    /\ ticket_mutex' = pthread_mutex_lock(ticket_mutex, w)
    /\ res' = [res EXCEPT ![w] = next_ticket]
    /\ issued' = Append(issued, next_ticket)
    /\ pc' = [pc EXCEPT ![w] = "gt_load"]
    /\ UNCHANGED <<gate, argv, zero_mutex_ok, params, ticket, out, next_ticket, reg>>
    /\ UNCHANGED <<mainVars, gateVars>>

\* line 160, next_ticket++: the load
GetTicketLoad(w) ==
    /\ pc[w] = "gt_load"
    /\ reg' = [reg EXCEPT ![w] = next_ticket]
    /\ pc' = [pc EXCEPT ![w] = "gt_store"]
    /\ UNCHANGED <<gate, argv, zero_mutex_ok, params, ticket, out, ticket_mutex,
                   next_ticket, res, issued>>
    /\ UNCHANGED <<mainVars, gateVars>>

\* the loop condition of just_do_it (line 203) on the ticket returned
InBudget(t, w) == t < params[w].loop_count

\* line 160, next_ticket++: the store; then lines 161-163 and 203-205:
\* unlock, return res into ticket (res and the loaded value go out of
\* scope), test the budget.  suspend() only delays the caller; the delay is
\* the interleaving of the other threads' steps before the next step of w.
GetTicketStore(w) ==
    /\ pc[w] = "gt_store"
    /\ next_ticket' = reg[w] + 1
    /\ ticket_mutex' = pthread_mutex_unlock(ticket_mutex, w)
    /\ ticket' = [ticket EXCEPT ![w] = res[w]]
    /\ res' = [res EXCEPT ![w] = 0]
    /\ reg' = [reg EXCEPT ![w] = 0]
    /\ pc' = [pc EXCEPT ![w] = IF InBudget(res[w], w) THEN "aw_lock" ELSE "done"]
    /\ UNCHANGED <<gate, argv, zero_mutex_ok, params, out, issued>>
    /\ UNCHANGED <<mainVars, gateVars>>

(*************************************************************************)
(* await                                                                 *)
(*************************************************************************)
\* a test that lets every ticket pass
AwaitAnyTicket(w) == "cs"

\* the loop condition of await (line 176): where w goes on

AwaitTest(w) == IF ticket[w] # actual_ticket THEN "aw_signal" ELSE "cs"

\* lines 175-176
AwaitLock(w) ==
    /\ pc[w] = "aw_lock"
    /\ CanLock(section_mutex)
    /\ section_mutex' = pthread_mutex_lock(section_mutex, w)
    /\ pc' = [pc EXCEPT ![w] = AwaitTest(w)]
    /\ UNCHANGED <<gate, argv, zero_mutex_ok, params, ticket, out, section_cond,
                   actual_ticket, wakes>>
    /\ UNCHANGED <<mainVars, ticketVars>>

\* the waiters pthread_cond_signal may wake: one of them, if there is any
Wakeable == section_cond.waiters

\* the wake-up count of a waiter, kept up to thread_count + 1
CountWake(n) == IF n <= thread_count THEN n + 1 ELSE n

\* a signal that reaches no waiter
signal_lost(w, next) ==
    /\ pc' = [pc EXCEPT ![w] = next]
    /\ UNCHANGED <<section_cond, wakes>>

\* pthread_cond_signal by worker w, which goes on at position next
pthread_cond_signal(w, next) ==
    /\ IF Wakeable = {}
       THEN /\ pc' = [pc EXCEPT ![w] = next]
            /\ UNCHANGED <<section_cond, wakes>>
       ELSE \E v \in Wakeable :
               /\ section_cond' =
                      [section_cond EXCEPT !.waiters = section_cond.waiters \ {v}]
               /\ pc' = [pc EXCEPT ![w] = next, ![v] = "aw_woken"]
               /\ wakes' = [wakes EXCEPT ![v] = CountWake(wakes[v])]

\* line 178
AwaitSignal(w) ==
    /\ pc[w] = "aw_signal"
    /\ pthread_cond_signal(w, "aw_wait")
    /\ UNCHANGED <<gate, argv, zero_mutex_ok, params, ticket, out, section_mutex,
                   actual_ticket>>
    /\ UNCHANGED <<mainVars, ticketVars>>

\* line 179, pthread_cond_wait: release the mutex and block, atomically
AwaitWait(w) ==
    /\ pc[w] = "aw_wait"
    /\ section_mutex' = pthread_mutex_unlock(section_mutex, w)
    /\ section_cond' =
          [section_cond EXCEPT !.waiters = section_cond.waiters \cup {w}]
    /\ pc' = [pc EXCEPT ![w] = "aw_blocked"]
    /\ UNCHANGED <<gate, argv, zero_mutex_ok, params, ticket, out, actual_ticket, wakes>>
    /\ UNCHANGED <<mainVars, ticketVars>>

\* line 179, pthread_cond_wait returns: the woken worker has the mutex
\* again; then line 176
AwaitWoken(w) ==
    /\ pc[w] = "aw_woken"
    /\ CanLock(section_mutex)
    /\ section_mutex' = pthread_mutex_lock(section_mutex, w)
    /\ pc' = [pc EXCEPT ![w] = AwaitTest(w)]
    /\ UNCHANGED <<gate, argv, zero_mutex_ok, params, ticket, out, section_cond,
                   actual_ticket, wakes>>
    /\ UNCHANGED <<mainVars, ticketVars>>

(*************************************************************************)
(* the critical section and advance                                      *)
(*************************************************************************)
\* line 207
CriticalSection(w) ==
    /\ pc[w] = "cs"
    /\ out' = Append(out, <<ticket[w], params[w].id>>)
    /\ pc' = [pc EXCEPT ![w] = "adv_inc"]
    /\ UNCHANGED <<gate, argv, zero_mutex_ok, params, ticket>>
    /\ UNCHANGED <<mainVars, ticketVars, gateVars>>

\* line 188
AdvanceInc(w) ==
    /\ pc[w] = "adv_inc"
    /\ actual_ticket' = actual_ticket + 1
    /\ wakes' = [v \in Workers |-> 0]
    /\ pc' = [pc EXCEPT ![w] = "adv_signal"]
    /\ UNCHANGED <<gate, argv, zero_mutex_ok, params, ticket, out, section_mutex,
                   section_cond>>
    /\ UNCHANGED <<mainVars, ticketVars>>

\* line 189
AdvanceSignal(w) ==
    /\ pc[w] = "adv_signal"
    /\ pthread_cond_signal(w, "adv_unlock")
    /\ UNCHANGED <<gate, argv, zero_mutex_ok, params, ticket, out, section_mutex,
                   actual_ticket>>
    /\ UNCHANGED <<mainVars, ticketVars>>

\* lines 190 and 209: unlock, then back to the head of the loop
AdvanceUnlock(w) ==
    /\ pc[w] = "adv_unlock"
    /\ section_mutex' = pthread_mutex_unlock(section_mutex, w)
    /\ pc' = [pc EXCEPT ![w] = "gt_lock"]
    /\ UNCHANGED <<gate, argv, zero_mutex_ok, params, ticket, out, section_cond,
                   actual_ticket, wakes>>
    /\ UNCHANGED <<mainVars, ticketVars>>

getticket(w) ==
    \/ GetTicketLock(w)
    \/ GetTicketLoad(w)
    \/ GetTicketStore(w)

await(w) ==
    \/ AwaitLock(w)
    \/ AwaitSignal(w)
    \/ AwaitWait(w)
    \/ AwaitWoken(w)

advance(w) ==
    \/ AdvanceInc(w)
    \/ AdvanceSignal(w)
    \/ AdvanceUnlock(w)

just_do_it(w) ==
    \/ getticket(w)
    \/ await(w)
    \/ CriticalSection(w)
    \/ advance(w)

Next ==
    \/ main
    \/ \E w \in Workers : just_do_it(w)

Spec == Init /\ [][Next]_vars

\* the runs on a platform where a zero-filled pthread_mutex_t is a working
\* mutex
InitMutexOk == Init /\ zero_mutex_ok

SpecMutexOk == InitMutexOk /\ [][Next]_vars

(*************************************************************************)
(* The broadcast gate of the specification: advance wakes all waiters    *)
(* and await does not signal before it waits.  It is no code of          *)
(* src/proj2.c; it runs the same main, getticket, lock, wait, critical   *)
(* section, increment and unlock steps as the code and differs in the    *)
(* two notification steps only.                                          *)
(*************************************************************************)
Gates == {"relay", "broadcast"}

\* await without the relay: a wrong ticket goes straight to the wait
AwaitNoRelay(w) ==
    /\ gate = "broadcast"
    /\ pc[w] = "aw_signal"
    /\ pc' = [pc EXCEPT ![w] = "aw_wait"]
    /\ UNCHANGED <<gate, argv, zero_mutex_ok, params, ticket, out>>
    /\ UNCHANGED <<mainVars, ticketVars, gateVars>>

\* advance with pthread_cond_broadcast: every waiter is woken
AdvanceBroadcast(w) ==
    /\ gate = "broadcast"
    /\ pc[w] = "adv_signal"
    /\ section_cond' = [section_cond EXCEPT !.waiters = {}]
    /\ pc' = [v \in Workers |->
                 IF v = w THEN "adv_unlock"
                 ELSE IF v \in section_cond.waiters THEN "aw_woken" ELSE pc[v]]
    /\ wakes' = [v \in Workers |->
                    IF v \in section_cond.waiters THEN CountWake(wakes[v])
                    ELSE wakes[v]]
    /\ UNCHANGED <<gate, argv, zero_mutex_ok, params, ticket, out, section_mutex,
                   actual_ticket>>
    /\ UNCHANGED <<mainVars, ticketVars>>

\* the two signals of the code, taken when the gate is the code's
RelayAwaitSignal(w) == gate = "relay" /\ AwaitSignal(w)

RelayAdvanceSignal(w) == gate = "relay" /\ AdvanceSignal(w)

\* the program with either gate
NextGates ==
    \/ main
    \/ \E w \in Workers :
          \/ getticket(w)
          \/ AwaitLock(w)
          \/ RelayAwaitSignal(w)
          \/ AwaitNoRelay(w)
          \/ AwaitWait(w)
          \/ AwaitWoken(w)
          \/ CriticalSection(w)
          \/ AdvanceInc(w)
          \/ RelayAdvanceSignal(w)
          \/ AdvanceBroadcast(w)
          \/ AdvanceUnlock(w)

InitGates == gate \in Gates /\ InitProgram

SpecGates == InitGates /\ [][NextGates]_vars

(*************************************************************************)
(* Positions.                                                            *)
(*************************************************************************)
\* w is between the return of await and the end of advance
InCS(w) == pc[w] \in {"cs", "adv_inc", "adv_signal", "adv_unlock"}

\* w is inside await: it has a ticket within the budget, not yet admitted
InAwait(w) == pc[w] \in {"aw_lock", "aw_signal", "aw_wait", "aw_blocked", "aw_woken"}

\* w holds a ticket within its budget that it has not released yet
HoldsTicket(w) == InAwait(w) \/ InCS(w)

Done == main_pc \in {"exit_success", "exit_failure"}

\* the ticket numbers of the lines printed so far
RECURSIVE Tickets(_)
Tickets(lines) ==
    IF lines = <<>> THEN <<>>
    ELSE <<lines[1][1]>> \o Tickets(Tail(lines))

\* <<0, 1, ..., n - 1>>
Iota(n) == [k \in 1 .. n |-> k - 1]

(*************************************************************************)
(* C1                                                                    *)
(*************************************************************************)
\* C1: at most one worker is between the return of await and the end of
\* advance, in every reachable state.
MutualExclusion ==
    \A v \in Workers, w \in Workers : (InCS(v) /\ InCS(w)) => v = w

\* C1 witness: a worker is in the critical section while another worker,
\* whose turn has come in the meantime, wants the section mutex.
MutualExclusionWitness ==
    \E v \in Workers, w \in Workers :
        /\ v # w
        /\ pc[v] \in {"adv_signal", "adv_unlock"}
        /\ pc[w] \in {"aw_lock", "aw_woken"}
        /\ ticket[w] = actual_ticket

(*************************************************************************)
(* C2                                                                    *)
(*************************************************************************)
\* C2: for tickets a < b, the worker holding a has entered the critical
\* section and finished advance before the worker holding b returns from
\* await(b): while a worker is in the critical section with ticket b, no
\* worker holds an unreleased ticket a < b.
FifoAdmission ==
    \A v \in Workers, w \in Workers :
        (InCS(w) /\ HoldsTicket(v)) => ticket[v] >= ticket[w]

(*************************************************************************)
(* C3                                                                    *)
(*************************************************************************)
\* C3: the tickets printed are at every moment 0, 1, ..., n - 1 for some
\* n <= loop_count, and once every worker has terminated they are exactly
\* 0 .. loop_count - 1.
OutputIsTicketOrder ==
    /\ Tickets(out) = Iota(Len(out))
    /\ Len(out) <= loop_count
    /\ main_pc = "exit_success" => Len(out) = loop_count

(*************************************************************************)
(* C4                                                                    *)
(*************************************************************************)
\* C4: every run completes: as long as main has not returned, some thread
\* can take a step (no run stops with a worker left waiting).
RunCompletes == Done \/ ENABLED Next

(*************************************************************************)
(* C5                                                                    *)
(*************************************************************************)
\* C5: the values getticket returns are exactly 0 .. loop_count - 1, each
\* once: no value is returned twice, none is outside the range, and at the
\* end of the run all of them have been returned.
TicketsAreTheRange ==
    /\ \A j \in 1 .. Len(issued), k \in 1 .. Len(issued) :
          issued[j] = issued[k] => j = k
    /\ \A k \in 1 .. Len(issued) : issued[k] \in 0 .. loop_count - 1
    /\ main_pc = "exit_success" =>
          \A t \in 0 .. loop_count - 1 : \E k \in 1 .. Len(issued) : issued[k] = t

(*************************************************************************)
(* C6                                                                    *)
(*************************************************************************)
\* C6: getticket is atomic: the values it returns, in the order in which
\* the calls read next_ticket, are 0, 1, 2, ... without a repeat or a gap,
\* and next_ticket is the number of values read so far (one less while the
\* increment of the last call is pending), so it never decreases.
GetTicketAtomic ==
    /\ issued = Iota(Len(issued))
    /\ next_ticket \in {Len(issued), Len(issued) - 1}

(*************************************************************************)
(* C7                                                                    *)
(*************************************************************************)
\* C7: actual_ticket is at most the smallest ticket issued to a worker and
\* not yet admitted to the critical section.
TurnNotPastWaiting ==
    \A w \in Workers : InAwait(w) => actual_ticket <= ticket[w]

(*************************************************************************)
(* C8                                                                    *)
(*************************************************************************)
\* C8: a waiter stays suspended until actual_ticket changes: between two
\* changes of actual_ticket it is woken a bounded number of times (at most
\* once by each thread of the run).
BoundedWakeups == \A w \in Workers : wakes[w] <= thread_count

(*************************************************************************)
(* C9                                                                    *)
(*************************************************************************)
\* C9: ticket_mutex, section_mutex and section_cond are initialised before
\* any worker is started, and none is destroyed before all are joined.
SyncLifecycle ==
    /\ (\E w \in Workers : pc[w] # "idle") =>
          /\ ticket_mutex.st # "uninit"
          /\ section_mutex.st # "uninit"
          /\ section_cond.st # "uninit"
    /\ (\E w \in Workers : pc[w] \notin {"idle", "done"}) =>
          /\ ticket_mutex.st # "destroyed"
          /\ section_mutex.st # "destroyed"
          /\ section_cond.st # "destroyed"

(*************************************************************************)
(* C10                                                                   *)
(*************************************************************************)
\* str reads as a decimal number: blanks, an optional sign, digits only
RECURSIVE AllDigits(_)
AllDigits(str) ==
    str = <<>> \/ (IsDigit(Head(str)) /\ AllDigits(Tail(str)))

RECURSIVE AllBlank(_)
AllBlank(str) ==
    str = <<>> \/ (IsSpace(Head(str)) /\ AllBlank(Tail(str)))

Numeric(str) ==
    \E b \in 0 .. Len(str), s \in 0 .. 1 :
        /\ b + s < Len(str)
        /\ AllBlank(SubSeq(str, 1, b))
        /\ s = 1 => str[b + 1] \in {"-", "+"}
        /\ AllDigits(SubSeq(str, b + s + 1, Len(str)))

\* every digit of str is 0
RECURSIVE AllZero(_)
AllZero(str) ==
    str = <<>> \/ (Head(str) \in {"0", " ", "-", "+"} /\ AllZero(Tail(str)))

\* the configuration errors: the number of arguments, an argument that is
\* no number, a count of zero
ConfigurationError ==
    \/ Len(argv) + 1 # 3
    \/ \E k \in 1 .. 2 : ~Numeric(argv[k]) \/ AllZero(argv[k])

\* C10: a configuration error or a failed allocation ends the run in the
\* failure exit before any worker is created: no thread started, nothing
\* printed, next_ticket and actual_ticket still 0.
ErrorsBeforeThreads ==
    /\ ConfigurationError =>
          main_pc \in {"check_argc", "parse_thread_count", "parse_loop_count",
                       "exit_failure"}
    /\ (\E k \in 1 .. Len(err) : err[k] = "Error: out of memory!") =>
          main_pc = "exit_failure"
    /\ main_pc = "exit_failure" =>
          /\ \A w \in Workers : pc[w] = "idle"
          /\ out = <<>>
          /\ next_ticket = 0
          /\ actual_ticket = 0
          /\ err # <<>>

\* C10 witness: the run has ended in the failure exit on a second argument
\* that is no number, after the first was accepted.
ErrorsBeforeThreadsWitness ==
    /\ main_pc = "exit_failure"
    /\ Len(argv) = 2
    /\ thread_count > 0
    /\ ~Numeric(argv[2])

(*************************************************************************)
(* C11                                                                   *)
(*************************************************************************)
\* the workers main has started so far
Started == {w \in Workers : pc[w] # "idle"}

\* C11: every printed line carries a thread id in 1 .. thread_count; the
\* ids are given once at start (the worker of loop index k gets k + 1), are
\* pairwise distinct and never change; with one thread every id is 1.
ThreadIdsInRange ==
    /\ \A k \in 1 .. Len(out) : out[k][2] \in 1 .. thread_count
    /\ \A w \in Started : params[w].id = w /\ params[w].id \in 1 .. thread_count
    /\ \A v, w \in Started : v # w => params[v].id # params[w].id
    /\ thread_count = 1 => \A k \in 1 .. Len(out) : out[k][2] = 1

\* C11 witness: the last of several threads has printed a line and so has
\* another thread.
ThreadIdsInRangeWitness ==
    /\ thread_count > 1
    /\ \E j, k \in 1 .. Len(out) : out[j][2] = thread_count /\ out[k][2] = 1

(*************************************************************************)
(* Steps and sets of workers the properties below speak about.           *)
(*************************************************************************)
\* w takes the step of advance() that increments actual_ticket
Advances(w) == pc[w] = "adv_inc" /\ pc'[w] = "adv_signal"

\* w returns from await(): it enters the critical section
Admitted(w) == pc[w] \in {"aw_lock", "aw_woken"} /\ pc'[w] = "cs"

\* the workers that were started and have not returned
Unterminated == {w \in Workers : pc[w] \notin {"idle", "done"}}

(*************************************************************************)
(* C12                                                                   *)
(*************************************************************************)
\* no step of the program with either gate is possible
Quiescent == ~ENABLED NextGates

\* what a step may do to the gate's visible state: admit a thread, print in
\* the critical section, move actual_ticket on
GateStep ==
    /\ \A w \in Workers :
          Admitted(w) =>
              /\ ticket[w] = actual_ticket
              /\ \A v \in Workers : ~InCS(v)
    /\ out' # out =>
          \E w \in Workers :
              /\ pc[w] = "cs"
              /\ ticket[w] = actual_ticket
              /\ out' = Append(out, <<actual_ticket, params[w].id>>)
    /\ actual_ticket' # actual_ticket =>
          \E w \in Workers :
              /\ InCS(w)
              /\ actual_ticket' = ticket[w] + 1

FrameOfTickets ==
    [][ /\ actual_ticket' # actual_ticket =>
              \E w \in Workers :
                  /\ Advances(w)
                  /\ section_mutex.owner = w
                  /\ ticket[w] = actual_ticket
                  /\ actual_ticket' = actual_ticket + 1
        /\ \A w \in Workers :
              /\ Advances(w) => actual_ticket' = ticket[w] + 1
              /\ (InCS(w) /\ ~InCS(w)') =>
                    (pc'[w] = "gt_lock" /\ actual_ticket' = ticket[w] + 1)
              /\ Admitted(w) => actual_ticket' = ticket[w]
        /\ next_ticket' # next_ticket =>
              \E w \in Workers : pc[w] = "gt_store" /\ pc'[w] # "gt_store"
      ]_vars

\* C13 witness: a thread has just incremented actual_ticket in advance()
\* for the second ticket of the run.
FrameOfTicketsWitness ==
    \E w \in Workers :
        pc[w] = "adv_signal" /\ ticket[w] = 1 /\ actual_ticket = 2

(*************************************************************************)
(* C14                                                                   *)
(*************************************************************************)
\* w has returned from await() and has not yet incremented actual_ticket
BeforeAdvance(w) == pc[w] \in {"cs", "adv_inc"}

\* C14: await(ticket) returns only with section_mutex held by the caller
\* and actual_ticket equal to the ticket; both stay so through the critical
\* section until the caller's advance(), and the unlock at the end of
\* advance() is the only place where the admitted thread gives the mutex up.
AdmissionHolds ==
    /\ [](\A w \in Workers :
            /\ InCS(w) => section_mutex.owner = w
            /\ BeforeAdvance(w) => actual_ticket = ticket[w])
    /\ [][\A w \in Workers :
            /\ Admitted(w) =>
                  (section_mutex'.owner = w /\ actual_ticket' = ticket'[w])
            /\ (InCS(w) /\ section_mutex'.owner # w) =>
                  (pc[w] = "adv_unlock" /\ pc'[w] = "gt_lock")]_vars

\* C14 witness: a thread prints in the critical section for a later ticket
\* while another thread stands at the lock of section_mutex in await().
AdmissionHoldsWitness ==
    \E v, w \in Workers :
        /\ pc[w] = "adv_inc"
        /\ ticket[w] > 0
        /\ pc[v] = "aw_lock"

(*************************************************************************)
(* C15                                                                   *)
(*************************************************************************)
\* C15: for every LOOP_COUNT that main accepts, the budget handed to each
\* worker equals the parsed value: the conversion from unsigned to int
\* preserves it, and no accepted value becomes a negative budget.
BudgetIsLoopCount ==
    \A w \in Started :
        /\ params[w].loop_count = loop_count
        /\ params[w].loop_count > 0

(*************************************************************************)
(* C16                                                                   *)
(*************************************************************************)
\* w carries a wake-up: it was signalled, or stands before the signal of
\* await(), and has not yet entered pthread_cond_wait again, or it is in
\* advance() before its signal
WakeupInFlight(w) == pc[w] \in {"aw_woken", "aw_signal", "adv_signal"}

\* w cannot take a step: it sleeps in pthread_cond_wait or stands at the
\* lock of a mutex that another thread holds
Blocked(w) ==
    \/ pc[w] = "aw_blocked"
    \/ pc[w] = "gt_lock" /\ ~CanLock(ticket_mutex)
    \/ pc[w] \in {"aw_lock", "aw_woken"} /\ ~CanLock(section_mutex)

\* C16: whenever the worker whose ticket equals actual_ticket sleeps in the
\* wait set of section_cond, some other thread carries a wake-up; and in no
\* state is every unterminated worker blocked.
NoLostWakeup ==
    /\ \A w \in Workers :
          (pc[w] = "aw_blocked" /\ ticket[w] = actual_ticket) =>
              \E v \in Workers \ {w} : WakeupInFlight(v)
    /\ Unterminated # {} => \E w \in Unterminated : ~Blocked(w)

(*************************************************************************)
(* C17                                                                   *)
(*************************************************************************)
\* C17: 0 <= actual_ticket <= next_ticket, actual_ticket <= loop_count and
\* next_ticket - actual_ticket <= thread_count, in every state.
CounterBounds ==
    /\ 0 <= actual_ticket
    /\ actual_ticket <= next_ticket
    /\ actual_ticket <= loop_count
    /\ next_ticket - actual_ticket <= thread_count

(*************************************************************************)
(* C18                                                                   *)
(*************************************************************************)
\* w leaves getticket(): the last step of the call
Returns(w) == pc[w] = "gt_store" /\ pc'[w] # "gt_store"

\* C18: a worker leaves its loop exactly when getticket returns a ticket
\* that is not below loop_count, without await() or advance() for it; so
\* when all workers are joined actual_ticket = loop_count, next_ticket =
\* loop_count + thread_count, both mutexes are free and nobody waits.
TerminalTickets ==
    /\ [][\A w \in Workers :
            /\ Returns(w) => (pc'[w] = "done" <=> ticket'[w] >= loop_count)
            /\ (pc[w] # "done" /\ pc'[w] = "done") => Returns(w)]_vars
    /\ [](main_pc \in {"destroy_mutex", "destroy_cond", "exit_success"} =>
            /\ actual_ticket = loop_count
            /\ next_ticket = loop_count + thread_count
            /\ section_mutex.owner = 0
            /\ ticket_mutex.owner = 0
            /\ section_cond.waiters = {})

(*************************************************************************)
(* C19                                                                   *)
(*************************************************************************)
\* w is between the lock and the unlock of ticket_mutex in getticket()
InGetTicket(w) == pc[w] \in {"gt_load", "gt_store"}

\* C19: no thread holds ticket_mutex and section_mutex at once, and
\* ticket_mutex is held only for the read and increment of next_ticket; so
\* a thread that asks for a ticket is kept from it only by a thread inside
\* getticket(), which needs no other lock to finish, also while a thread
\* is in the critical section or sleeps in await().
NoNestedLocks ==
    /\ \A w \in Workers :
          /\ ~(ticket_mutex.owner = w /\ section_mutex.owner = w)
          /\ ticket_mutex.owner = w => InGetTicket(w)
          /\ InGetTicket(w) => section_mutex.owner # w
          /\ InGetTicket(w) => ENABLED getticket(w)
          /\ pc[w] = "gt_lock" =>
                \/ ENABLED GetTicketLock(w)
                \/ \E v \in Workers \ {w} : InGetTicket(v)

\* C19 witness: a thread holds ticket_mutex for its next ticket while
\* another is in the critical section and a third sleeps in await().
NoNestedLocksWitness ==
    \E u, v, w \in Workers :
        /\ ticket_mutex.owner = w
        /\ pc[w] = "gt_store"
        /\ pc[v] = "cs"
        /\ pc[u] = "aw_blocked"

=============================================================================
